---- MODULE Spec2Model ----
(***************************************************************************)
(* A model of the voice-agent scenario discovery engine:                   *)
(*   - HammingClient.download_recording   (src/src/api/hamming_client.py)  *)
(*   - ScenarioTracker                    (src/src/graph/scenario_tracker.py) *)
(*   - VoiceAgentDiscovery.discover_scenarios                              *)
(*                                        (src/src/voice_agent_discovery.py) *)
(*   - webhook                            (src/webhook.py)                 *)
(* The specifications share the variables: SpecFetch drives one            *)
(* download_recording call after another, SpecGraph drives the tracker,    *)
(* Spec drives a whole discovery run (which uses both), SpecLive is Spec   *)
(* with the fairness of a sequential run, SpecWebhook lets the             *)
(* notifications of the webhook arrive while a recording is polled, and    *)
(* SpecMatch calls the static method _is_scenario_discovered on its own,   *)
(* SpecRuns calls discover_scenarios again on the same instance, and       *)
(* SpecNotified lets the notifications arrive during the first iteration   *)
(* of a run, from its call to its transcript.                              *)
(***************************************************************************)
EXTENDS Integers, Sequences, FiniteSets, TLC

VARIABLES
    \* ---- HammingClient.download_recording -------------------------------
    fpc,            \* "idle" | "request" | "sleep" | "returned" | "raised"
    max_retries,    \* the max_retries argument of the running call
    attempt,        \* the loop variable of `for attempt in range(max_retries)`
    responses,      \* the responses received by the running call, in order
    sleeps,         \* the time.sleep calls of the running call, in order
    wait_time,      \* the argument of the time.sleep in progress
    dl_result,      \* the returned path, or the message of the exception raised
    wrote,          \* whether the running call wrote temp_{call_id}.wav
    recordings,     \* the call ids that have a file under recordings_dir
    fetch_call_id,  \* the call_id argument of the running call
    \* ---- ScenarioTracker -------------------------------------------------
    nx_graph,       \* the MultiDiGraph: nodes, is_outcome attribute, keyed edges
    exported,       \* what the last export_graph call serialized or drew
    tracked,        \* how many track_scenario calls there were, and the last one
    \* ---- VoiceAgentDiscovery ---------------------------------------------
    analyzer,       \* what self.analyzer.generate_prompt accepts
    pc,             \* the position of discover_scenarios
    scenarios_to_explore,
    scenarios_explored,
    discovered_scenarios,
    existing_questions,
    existing_outcomes,
    current,        \* (current_prompt, path) of the iteration
    call_response,  \* what start_call returned
    transcript,     \* what transcribe returned
    extracted,      \* (extracted_qa_pairs, outcome) of analyzer.analyze
    new_scenarios,  \* what analyzer.generate_scenarios returned
    analyze_args,   \* the arguments of the last analyzer.analyze call
    report,         \* what the run printed at its end, and what it raised
    log,            \* the run's history: what was enqueued, dequeued, called
    \* ---- webhook ---------------------------------------------------------
    hook,           \* the last POST /webhook: the request and what came of it
    \* ---- VoiceAgentDiscovery._is_scenario_discovered called on its own ----
    match           \* the arguments of the last call and what it returned

fetchVars == <<fpc, max_retries, attempt, responses, sleeps, wait_time,
               dl_result, wrote, recordings, fetch_call_id>>
graphVars == <<nx_graph, exported, tracked>>
ctlVars == <<analyzer, pc, scenarios_to_explore, scenarios_explored,
             discovered_scenarios, existing_questions, existing_outcomes,
             current, call_response, transcript, extracted, new_scenarios,
             analyze_args, report, log>>
hookVars == <<hook>>
matchVars == <<match>>
vars == <<fetchVars, graphVars, ctlVars, hookVars, matchVars>>

\* ------------------------------------------------------------------------
\* Bounds of the model
\* ------------------------------------------------------------------------
MaxRetriesBound == 4     \* max_retries ranges over 0 .. MaxRetriesBound
MaxTracks == 3           \* track_scenario calls in a behaviour of SpecGraph
MaxScenarios == 3        \* stands for max_scenarios, which __init__ sets to 10
MaxDiscovered == 2       \* the longest discovered list given to _is_scenario_discovered
MaxRuns == 2             \* discover_scenarios calls on one instance in SpecRuns

\* ------------------------------------------------------------------------
\* Small helpers
\* ------------------------------------------------------------------------
\* bytes.startswith / str.startswith
StartsWith(content, prefix) ==
    /\ Len(content) >= Len(prefix)
    /\ SubSeq(content, 1, Len(prefix)) = prefix

\* ========================================================================
\* HammingClient.download_recording
\* ========================================================================
RIFF == <<"R", "I", "F", "F">>

\* The bodies a response can carry: a JSON object, a WAV file, an HTML page,
\* a body that holds RIFF but not at its start, and a truncated header.
\* The statuses: 404, 200, another 4xx, a 5xx, and one that is no error.
JsonBody == <<"{", "}">>
WavBody == <<"R", "I", "F", "F", "W">>
HtmlBody == <<"<", "h">>
ShiftedBody == <<"x", "R", "I", "F", "F">>
ShortBody == <<"R", "I", "F">>

Response(status, body) == [status_code |-> status, content |-> body]

\* The answers of GET /media/exercise?id=... the model draws from.
Responses ==
    { Response(404, JsonBody), Response(404, HtmlBody),
      Response(200, WavBody), Response(200, HtmlBody),
      Response(200, ShiftedBody), Response(200, ShortBody),
      Response(202, JsonBody), Response(403, JsonBody),
      Response(500, HtmlBody) }

\* response.json().get('error', ...) needs a body that parses as a JSON object
json_parses(content) == StartsWith(content, <<"{">>)

raises_for_server_error(status_code) == status_code >= 500 /\ status_code < 600

\* requests.Response.raise_for_status raises for 4xx and 5xx
raises_for_status(status_code) == status_code >= 400 /\ status_code < 600

BaseDelay == 10

exponential_wait_time(a) == BaseDelay * (2 ^ a)

\* line 122: wait_time = 10 * (attempt + 1)
compute_wait_time(a) == BaseDelay * (a + 1)

retry_after_last(a, m) == a < m

\* line 121: if attempt < max_retries - 1
may_retry(a, m) == a < m - 1

contains_riff(content) ==
    \E i \in 1..Len(content) :
        /\ i + 3 <= Len(content)
        /\ SubSeq(content, i, i + 3) = RIFF

valid_once_notified(content) == StartsWith(content, RIFF) /\ hook.request # <<>>

\* lines 130-131: first_bytes = response.content[:12]; first_bytes.startswith(b'RIFF')
is_valid_wav(content) ==
    StartsWith(SubSeq(content, 1, IF Len(content) < 12 THEN Len(content) ELSE 12), RIFF)

MaxRetriesReached == "Max retries reached waiting for recording"
NotValidWav == "Received response is not a valid WAV file"
FailedAfterAttempts == "Failed to download recording after max_retries attempts"
HTTPError == "HTTPError"
JSONDecodeError == "JSONDecodeError"
NoResult == "none"

AudioPath(call_id) == <<"recordings", "temp", call_id, "wav">>

\* The loop of lines 111-141 goes on to its next pass, or is exhausted and
\* line 143 raises.
NextPass(a) ==
    IF a + 1 < max_retries
    THEN /\ attempt' = a + 1
         /\ fpc' = "request"
         /\ dl_result' = dl_result
    ELSE /\ attempt' = a
         /\ fpc' = "raised"
         /\ dl_result' = FailedAfterAttempts

\* download_recording(call_id, max_retries) is entered (lines 109-111).
EnterDownload(call_id, m) ==
    /\ fetch_call_id' = call_id
    /\ max_retries' = m
    /\ attempt' = 0
    /\ responses' = <<>>
    /\ sleeps' = <<>>
    /\ wait_time' = 0
    /\ wrote' = FALSE
    /\ IF m > 0
       THEN fpc' = "request" /\ dl_result' = NoResult
       ELSE fpc' = "raised" /\ dl_result' = FailedAfterAttempts
    /\ UNCHANGED recordings

\* One pass of the loop body, lines 112-141, up to its sleep, return or raise.
FetchRequest ==
    /\ fpc = "request"
    /\ \E r \in Responses :
        /\ responses' = Append(responses, r)
        /\ IF r.status_code = 404
           THEN IF ~json_parses(r.content)
                THEN /\ fpc' = "raised"
                     /\ dl_result' = JSONDecodeError
                     /\ UNCHANGED <<attempt, sleeps, wait_time, wrote, recordings>>
                ELSE IF may_retry(attempt, max_retries)
                THEN /\ fpc' = "sleep"
                     /\ wait_time' = compute_wait_time(attempt)
                     /\ sleeps' = Append(sleeps, [request |-> Len(responses) + 1,
                                                  wait |-> compute_wait_time(attempt)])
                     /\ UNCHANGED <<attempt, dl_result, wrote, recordings>>
                ELSE /\ fpc' = "raised"
                     /\ dl_result' = MaxRetriesReached
                     /\ UNCHANGED <<attempt, sleeps, wait_time, wrote, recordings>>
           ELSE IF r.status_code = 200
           THEN IF ~is_valid_wav(r.content)
                THEN /\ fpc' = "raised"
                     /\ dl_result' = NotValidWav
                     /\ UNCHANGED <<attempt, sleeps, wait_time, wrote, recordings>>
                ELSE /\ fpc' = "returned"
                     /\ dl_result' = AudioPath(fetch_call_id)
                     /\ wrote' = TRUE
                     /\ recordings' = recordings \cup {fetch_call_id}
                     /\ UNCHANGED <<attempt, sleeps, wait_time>>
           ELSE IF raises_for_status(r.status_code)
           THEN /\ fpc' = "raised"
                /\ dl_result' = HTTPError
                /\ UNCHANGED <<attempt, sleeps, wait_time, wrote, recordings>>
           ELSE /\ NextPass(attempt)
                /\ UNCHANGED <<sleeps, wait_time, wrote, recordings>>
    /\ UNCHANGED <<max_retries, fetch_call_id>>
    /\ UNCHANGED <<graphVars, ctlVars, hookVars, matchVars>>

\* time.sleep(wait_time) returns and `continue` starts the next pass
\* (lines 124-125).
FetchWake ==
    /\ fpc = "sleep"
    /\ wait_time' = 0
    /\ NextPass(attempt)
    /\ UNCHANGED <<max_retries, responses, sleeps, wrote, recordings, fetch_call_id>>
    /\ UNCHANGED <<graphVars, ctlVars, hookVars, matchVars>>

\* ========================================================================
\* ScenarioTracker
\* ========================================================================
\* A dict is the sequence of its (key, value) items in insertion order; a
\* path (a scenario) is a sequence of dicts.
Q1 == "Are you an existing customer?"
Q2 == "Is this an emergency?"
Item(q, a) == <<q, a>>
Dict1(q, a) == <<Item(q, a)>>
EmptyDict == <<>>

YesNo == <<Dict1(Q1, "Yes"), Dict1(Q2, "No")>>
NoNo == <<Dict1(Q1, "No"), Dict1(Q2, "No")>>
No1 == <<Dict1(Q1, "No")>>
Yes1 == <<Dict1(Q1, "Yes")>>
Empty == <<>>

CallStart == "Call Start"
BeginCall == "begin call"

\* line 76: outcome_node = f"Outcome: {outcome}"
OutcomeNode(outcome) == "Outcome: " \o outcome

\* The paths track_scenario is given: no pair at all, one and two pairs, an
\* empty dict (alone and in front of a pair), the two questions in the
\* other order, one question twice, one dict that holds two pairs, and
\* questions whose text is the name of another node: the start node's and
\* an outcome node's (a question is any str key of the dicts).
Paths ==
    { Empty, Yes1, No1, YesNo, NoNo,
      <<EmptyDict>>, <<EmptyDict, Dict1(Q2, "No")>>,
      <<Dict1(Q2, "No"), Dict1(Q1, "Yes")>>,
      <<Dict1(Q1, "Yes"), Dict1(Q1, "No")>>,
      << <<Item(Q1, "Yes"), Item(Q2, "No")>> >>,
      <<Dict1(CallStart, "Yes"), Dict1(Q2, "No")>>,
      <<Dict1(OutcomeNode("transfer"), "Yes")>> }
Outcomes == {"agent_callback", "transfer"}

\* lines 29-31: an empty MultiDiGraph with the "Call Start" node
NewGraph == [nodes |-> {CallStart}, is_outcome |-> {}, edges |-> {}]

\* nx.MultiDiGraph.add_node(n)
add_node(G, n) == [G EXCEPT !.nodes = @ \cup {n}]

replace_outcome_node(G, n) ==
    [nodes |-> G.nodes \cup {n}, is_outcome |-> G.is_outcome \cup {n},
     edges |-> {e \in G.edges : e.from # n /\ e.to # n}]

\* nx.MultiDiGraph.add_node(n, is_outcome=True)
add_outcome_node(G, n) ==
    [G EXCEPT !.nodes = @ \cup {n}, !.is_outcome = @ \cup {n}]

\* nx.MultiDiGraph.new_edge_key: the number of edges u->v, stepped past
\* the keys in use (no edge is ever removed, so that number is free)
new_edge_key(G, u, v) == Cardinality({e \in G.edges : e.from = u /\ e.to = v})

add_edge_digraph(G, u, v, answer) ==
    [G EXCEPT !.nodes = @ \cup {u, v},
              !.edges = {e \in @ : ~(e.from = u /\ e.to = v)}
                        \cup {[from |-> u, to |-> v, answer |-> answer, key |-> 0]}]

\* nx.MultiDiGraph.add_edge(u, v, answer=answer): the end nodes are added
\* when missing and the edge gets a fresh key
add_edge(G, u, v, answer) ==
    [G EXCEPT !.nodes = @ \cup {u, v},
              !.edges = @ \cup {[from |-> u, to |-> v, answer |-> answer,
                                 key |-> new_edge_key(G, u, v)]}]

\* the items of the dicts of a path, in order (the two loops of lines 62-63)
RECURSIVE Items(_)
Items(path) == IF path = <<>> THEN <<>> ELSE Head(path) \o Items(Tail(path))

\* lines 56-60: connect Call Start to the first question
ConnectStart(G, path) ==
    IF path # <<>> /\ path[1] # <<>>
    THEN add_edge(add_node(G, path[1][1][1]), CallStart, path[1][1][1], BeginCall)
    ELSE G

\* line 71: answer=previous_question[1]
edge_answer(previous_question, item) == previous_question[2]

\* lines 62-74: [graph, previous_question] after the loops over the items
RECURSIVE TrackItems(_, _, _)
TrackItems(G, items, previous_question) ==
    IF items = <<>> THEN [graph |-> G, previous_question |-> previous_question]
    ELSE LET question == Head(items)[1]
             G1 == add_node(G, question)
             G2 == IF previous_question[1] # CallStart
                   THEN add_edge(G1, previous_question[1], question,
                                 edge_answer(previous_question, Head(items)))
                   ELSE G1
         IN TrackItems(G2, Tail(items), Head(items))

\* lines 53-83
track_scenario(G, path, outcome) ==
    LET after == TrackItems(ConnectStart(G, path), Items(path), <<CallStart, BeginCall>>)
        outcome_node == OutcomeNode(outcome)
    IN add_edge(add_outcome_node(after.graph, outcome_node),
                after.previous_question[1], outcome_node, after.previous_question[2])

json_edge_keyed_answer(e) ==
    [from |-> e.from, to |-> e.to, answer |-> e.key, key |-> e.key]

\* lines 131-136: one entry of "edges"
json_edge(e) ==
    [from |-> e.from, to |-> e.to, answer |-> e.answer, key |-> e.key]

\* lines 126-140: graph_data of export_graph('json'); the entries of a
\* multigraph differ at least by key, so the two lists are held as sets
export_json(G) ==
    [nodes |-> G.nodes, edges |-> {json_edge(e) : e \in G.edges}]

\* lines 209-239: the labelled curves export_graph('visual') draws, one
\* for each answer of each pair of end nodes
export_visual(G) == {<<e.from, e.to, e.answer>> : e \in G.edges}

NoExport == [format |-> "none", data |-> {}]
NoTrack == [n |-> 0, path |-> <<>>, outcome |-> "none", transcript |-> "none"]

\* ScenarioTracker.track_scenario(path, outcome)
TrackScenario ==
    /\ tracked.n < MaxTracks
    /\ \E path \in Paths, outcome \in Outcomes :
        /\ nx_graph' = track_scenario(nx_graph, path, outcome)
        /\ tracked' = [n |-> tracked.n + 1, path |-> path, outcome |-> outcome,
                       transcript |-> "none"]
    /\ UNCHANGED exported
    /\ UNCHANGED <<fetchVars, ctlVars, hookVars, matchVars>>

\* ScenarioTracker.export_graph('json')
ExportJson ==
    /\ exported' = [format |-> "json", data |-> export_json(nx_graph)]
    /\ UNCHANGED <<nx_graph, tracked>>
    /\ UNCHANGED <<fetchVars, ctlVars, hookVars, matchVars>>

\* ScenarioTracker.export_graph('visual')
ExportVisual ==
    /\ exported' = [format |-> "visual", data |-> export_visual(nx_graph)]
    /\ UNCHANGED <<nx_graph, tracked>>
    /\ UNCHANGED <<fetchVars, ctlVars, hookVars, matchVars>>

\* ========================================================================
\* VoiceAgentDiscovery
\* ========================================================================
\* ---- ConversationAnalyzer.generate_prompt ------------------------------
\* conversation_analyzer.py line 230 declares generate_prompt(self, scenario,
\* question_answers); discover_scenarios calls it with four arguments (lines
\* 77-79 and 131-133), which that method answers with a TypeError.  The
\* analyzer is a collaborator behind self.analyzer: `analyzer` says whether
\* it is the repository's class ("two_param") or one whose generate_prompt
\* takes the four arguments the controller passes ("four_param").
RepositoryAnalyzer == "two_param"
ContractAnalyzer == "four_param"
Analyzers == {RepositoryAnalyzer, ContractAnalyzer}
PromptArgsPassed == 4

\* the parameters generate_prompt takes besides self
params_of(a) == IF a = RepositoryAnalyzer THEN 2 ELSE 4

\* lines 245-272: the prompt holds the scenario text and one instruction
\* for each item of each dict, in order
generate_prompt(scenario, question_answers) ==
    [scenario |-> scenario, qa_instructions |-> Items(question_answers)]

InitialPrompts == {"Customer calling to buy a new car"}

\* ---- _is_scenario_discovered -------------------------------------------
dict_keys(d) == {d[i][1] : i \in 1..Len(d)}
dict_get(d, k) == d[CHOOSE i \in 1..Len(d) : d[i][1] = k][2]

dicts_match_keys_only(disc_dict, cand_dict) ==
    dict_keys(disc_dict) = dict_keys(cand_dict)

\* lines 177-184: the two dicts have the same keys and the same values
dicts_match(disc_dict, cand_dict) ==
    /\ dict_keys(disc_dict) = dict_keys(cand_dict)
    /\ \A key \in dict_keys(disc_dict) : dict_get(disc_dict, key) = dict_get(cand_dict, key)

scenario_is_same_object(discovered, candidate_scenario) == FALSE

\* lines 172-190: one discovered scenario against the candidate
scenario_matches(discovered, candidate_scenario) ==
    /\ Len(discovered) = Len(candidate_scenario)
    /\ \A i \in 1..Len(discovered) : dicts_match(discovered[i], candidate_scenario[i])

first_scenario_matches(discovered, candidate_scenario) ==
    /\ discovered # <<>>
    /\ scenario_matches(discovered[1], candidate_scenario)

\* lines 166-192
is_scenario_discovered(discovered, candidate_scenario) ==
    /\ discovered # <<>>
    /\ \E i \in 1..Len(discovered) : scenario_matches(discovered[i], candidate_scenario)

\* the scenarios _is_scenario_discovered is given when called on its own:
\* no dict, one and two one-pair dicts, the two questions in the other
\* order, an empty dict, and one two-pair dict in both insertion orders
MatchScenarios ==
    { Empty, Yes1, No1, YesNo, NoNo, <<EmptyDict>>,
      <<Dict1(Q2, "No"), Dict1(Q1, "Yes")>>,
      << <<Item(Q1, "Yes"), Item(Q2, "No")>> >>,
      << <<Item(Q2, "No"), Item(Q1, "Yes")>> >> }
ListsUpTo(S, n) == UNION {[1..k -> S] : k \in 0..n}

NoMatch == [called |-> FALSE, discovered_scenarios |-> <<>>,
            candidate_scenario |-> <<>>, result |-> FALSE]

\* VoiceAgentDiscovery._is_scenario_discovered(discovered_scenarios,
\* candidate_scenario), a static method that keeps nothing from one call
\* to the next: one call on each pair of arguments
IsScenarioDiscovered ==
    /\ ~match.called
    /\ \E D \in ListsUpTo(MatchScenarios, MaxDiscovered), c \in MatchScenarios :
        match' = [called |-> TRUE, discovered_scenarios |-> D,
                  candidate_scenario |-> c,
                  result |-> is_scenario_discovered(D, c)]
    /\ UNCHANGED <<fetchVars, graphVars, ctlVars, hookVars>>

\* ---- what the collaborators can answer ---------------------------------
\* (question_answers, outcome) of ConversationAnalyzer.analyze: two pairs,
\* one pair, no pair, and a question whose text is the start node's name
Analyses == { <<YesNo, "agent_callback">>, <<No1, "transfer">>,
              <<Empty, "agent_callback">>,
              << <<Dict1(CallStart, "Yes"), Dict1(Q2, "No")>>, "transfer">> }

\* new_scenarios of ConversationAnalyzer.generate_scenarios
VariantLists == { <<>>, <<NoNo>>, <<No1>>, <<NoNo, No1>>, <<No1, NoNo>>,
                  <<NoNo, NoNo>>, <<Empty>>, <<Empty, NoNo>>, <<Yes1>>, <<Yes1, No1>> }

TranscriptText == "Agent: ... Customer: ..."
NoneValue == "None"
NoCurrent == "none"
\* not assigned yet: the iteration's locals before their first assignment
NoItem == <<>>
NoResponse == [unset |-> TRUE]

DefaultMaxRetries == 3

\* an optional value: <<>> when absent (None, or never printed), <<v>> when v
Absent == <<>>
Some(v) == <<v>>

NoArgs == [transcript |-> Absent, existing_questions |-> Absent,
           existing_outcomes |-> Absent]

\* explored and remaining: the counts of lines 139 and 141; error: the
\* message of line 103; raised: the exception that left discover_scenarios
NoReport == [explored |-> Absent, remaining |-> Absent, error |-> Absent,
             raised |-> Absent]
Raised(stage, exception) ==
    [report EXCEPT !.raised = Some([stage |-> stage, exception |-> exception])]
ErrorPropagated(message) ==
    [report EXCEPT !.raised = Some([stage |-> "retrieve", exception |-> message])]
\* lines 102-104: the except clause prints the message and returns
ErrorInCallProcessing(message) == [report EXCEPT !.error = Some(message)]
KeyErrorId == "'id'"
TranscribeError == "transcription failed"

NoFailure == [stage |-> "none", deq |-> 0, calls |-> 0, tracks |-> 0]
\* run: which discover_scenarios call on the instance this is
NewLog == [enq |-> <<>>, deq |-> 0, calls |-> 0, failed |-> NoFailure, run |-> 1]

\* a stage of the iteration failed: the history keeps the first failure of
\* the run and what had been dequeued, called and recorded by then
NoteFailure(l, stage) ==
    IF l.failed.stage # "none" THEN l
    ELSE [l EXCEPT !.failed = [stage |-> stage, deq |-> l.deq, calls |-> l.calls,
                               tracks |-> tracked.n]]

FrontierScenarios == [i \in 1..Len(scenarios_to_explore) |-> scenarios_to_explore[i][2]]

cap_ignored(explored, cap) == TRUE

cap_included(explored, cap) == explored <= cap

under_cap_less_one(explored, cap) == explored < cap - 1

\* line 83: ... and scenarios_explored < self.max_scenarios
under_cap(explored, cap) == explored < cap

cap_reached_one_early(explored, cap) == explored >= cap - 1

\* line 125: if scenarios_explored >= self.max_scenarios: break
cap_reached(explored, cap) == explored >= cap

pop_last(queue) == [head |-> queue[Len(queue)], rest |-> SubSeq(queue, 1, Len(queue) - 1)]

\* line 84: scenarios_to_explore.pop(0)
pop_first(queue) == [head |-> Head(queue), rest |-> Tail(queue)]

\* the loop over new_scenarios taken from its last element to its first, as
\* the iteration of an unordered collection may
RECURSIVE enqueue_last_first(_, _, _, _)
enqueue_last_first(variants, discovered, frontier, enq) ==
    IF variants = <<>> \/ cap_reached(scenarios_explored, MaxScenarios)
    THEN [discovered |-> discovered, frontier |-> frontier, enq |-> enq]
    ELSE LET scenario == variants[Len(variants)]
             rest == SubSeq(variants, 1, Len(variants) - 1)
         IN IF ~is_scenario_discovered(discovered, scenario)
            THEN enqueue_last_first(rest,
                                    Append(discovered, scenario),
                                    Append(frontier, <<generate_prompt("", scenario), scenario>>),
                                    Append(enq, scenario))
            ELSE enqueue_last_first(rest, discovered, frontier, enq)

\* lines 124-134: [discovered, frontier, enq] after the loop over new_scenarios
RECURSIVE EnqueueVariants(_, _, _, _)
EnqueueVariants(variants, discovered, frontier, enq) ==
    IF variants = <<>> \/ cap_reached(scenarios_explored, MaxScenarios)
    THEN [discovered |-> discovered, frontier |-> frontier, enq |-> enq]
    ELSE LET scenario == Head(variants)
         IN IF ~is_scenario_discovered(discovered, scenario)
            THEN EnqueueVariants(Tail(variants),
                                 Append(discovered, scenario),
                                 Append(frontier, <<generate_prompt("", scenario), scenario>>),
                                 Append(enq, scenario))
            ELSE EnqueueVariants(Tail(variants), discovered, frontier, enq)

\* lines 118-120: the questions of the extracted pairs
questions_of(qa_pairs) == {Items(qa_pairs)[i][1] : i \in 1..Len(Items(qa_pairs))}

EndDownloadFrame ==
    /\ fpc' = "idle"
    /\ attempt' = 0
    /\ responses' = <<>>
    /\ sleeps' = <<>>
    /\ wait_time' = 0
    /\ wrote' = FALSE
    /\ dl_result' = NoResult
    /\ UNCHANGED <<max_retries, recordings, fetch_call_id>>

\* lines 76-81: discover_scenarios is called
DiscoverScenarios ==
    /\ pc = "constructed"
    /\ \E initial_prompt \in InitialPrompts :
        IF params_of(analyzer) # PromptArgsPassed
        THEN /\ pc' = "raised"
             /\ report' = Raised("render_prompt", "TypeError")
             /\ UNCHANGED <<scenarios_to_explore, scenarios_explored, log>>
        ELSE /\ scenarios_to_explore' = <<<<generate_prompt(initial_prompt, <<>>), <<>>>>>>
             /\ scenarios_explored' = 0
             /\ log' = [log EXCEPT !.enq = <<Empty>>]
             /\ pc' = "loop"
             /\ UNCHANGED report
    /\ UNCHANGED <<hook, match, analyzer, analyze_args, discovered_scenarios, existing_questions, existing_outcomes,
                   current, call_response, transcript, extracted, new_scenarios>>
    /\ UNCHANGED <<fetchVars, graphVars>>

\* lines 83-87: the loop condition holds; the head is popped (in a later
\* call on the same instance the model follows the tracker up to its
\* MaxTracks-th track_scenario call)
LoopDequeue ==
    /\ pc = "loop"
    /\ scenarios_to_explore # <<>>
    /\ under_cap(scenarios_explored, MaxScenarios)
    /\ log.run = 1 \/ tracked.n < MaxTracks
    /\ current' = pop_first(scenarios_to_explore).head
    /\ scenarios_to_explore' = pop_first(scenarios_to_explore).rest
    /\ scenarios_explored' = scenarios_explored + 1
    /\ log' = [log EXCEPT !.deq = @ + 1]
    /\ pc' = "start_call"
    /\ UNCHANGED <<hook, match, analyzer, analyze_args, report, discovered_scenarios, existing_questions, existing_outcomes,
                   call_response, transcript, extracted, new_scenarios>>
    /\ UNCHANGED <<fetchVars, graphVars>>

\* lines 83, 139-143: the loop condition fails; the final report and export
LoopExit ==
    /\ pc = "loop"
    /\ ~(scenarios_to_explore # <<>> /\ under_cap(scenarios_explored, MaxScenarios))
    /\ exported' = [format |-> "visual", data |-> export_visual(nx_graph)]
    /\ report' = [report EXCEPT !.explored = Some(scenarios_explored),
                                 !.remaining = Some(FrontierScenarios)]
    /\ pc' = "done"
    /\ UNCHANGED <<hook, match, analyzer, analyze_args, scenarios_to_explore, scenarios_explored, discovered_scenarios,
                   existing_questions, existing_outcomes, current, call_response,
                   transcript, extracted, new_scenarios, log>>
    /\ UNCHANGED <<fetchVars, nx_graph, tracked>>

\* lines 90-97: start_call posts the call and returns the response's JSON
\* (with the call's id, or an error body without one), or raises; then
\* time.sleep(45)
StartCall ==
    /\ pc = "start_call"
    /\ \/ /\ \E r \in {[id |-> scenarios_explored], [error |-> "Unauthorized"]} :
                call_response' = r
          /\ pc' = "download"
          /\ log' = [log EXCEPT !.calls = @ + 1]
          /\ UNCHANGED report
       \/ /\ pc' = "raised"
          /\ log' = NoteFailure([log EXCEPT !.calls = @ + 1], "place_call")
          /\ report' = Raised("place_call", "RequestException")
          /\ UNCHANGED call_response
    /\ UNCHANGED <<hook, match, analyzer, analyze_args, scenarios_to_explore, scenarios_explored, discovered_scenarios,
                   existing_questions, existing_outcomes, current, transcript, extracted,
                   new_scenarios>>
    /\ UNCHANGED <<fetchVars, graphVars>>

\* line 100: call_response['id'] is read and download_recording is entered
Download ==
    /\ pc = "download"
    /\ IF "id" \in DOMAIN call_response
       THEN /\ EnterDownload(call_response.id, DefaultMaxRetries)
            /\ pc' = "downloading"
            /\ UNCHANGED <<log, report>>
       ELSE /\ pc' = "aborted"
            /\ log' = NoteFailure(log, "place_call")
            /\ report' = ErrorInCallProcessing(KeyErrorId)
            /\ UNCHANGED fetchVars
    /\ UNCHANGED <<hook, match, analyzer, analyze_args, scenarios_to_explore, scenarios_explored, discovered_scenarios,
                   existing_questions, existing_outcomes, current, call_response,
                   transcript, extracted, new_scenarios>>
    /\ UNCHANGED graphVars

\* lines 100-104: download_recording returned the path, or raised and the
\* except clause returns from discover_scenarios
DownloadDone ==
    /\ pc = "downloading"
    /\ fpc \in {"returned", "raised"}
    /\ IF fpc = "returned"
       THEN pc' = "transcribe" /\ UNCHANGED <<log, report>>
       ELSE /\ pc' = "aborted"
            /\ log' = NoteFailure(log, "retrieve")
            /\ report' = ErrorInCallProcessing(dl_result)
    /\ EndDownloadFrame
    /\ UNCHANGED <<hook, match, analyzer, analyze_args, scenarios_to_explore, scenarios_explored, discovered_scenarios,
                   existing_questions, existing_outcomes, current, call_response,
                   transcript, extracted, new_scenarios>>
    /\ UNCHANGED graphVars

\* line 101 with assembly_transcriber.py lines 93-116: transcribe returns the
\* formatted transcript, returns None when the transcript's status is error,
\* or raises (and the except clause of line 102 returns)
Transcribe ==
    /\ pc = "transcribe"
    /\ \/ /\ transcript' = TranscriptText
          /\ pc' = "analyze"
          /\ UNCHANGED <<log, report>>
       \/ /\ transcript' = NoneValue
          /\ pc' = "analyze"
          /\ log' = NoteFailure(log, "transcribe")
          /\ UNCHANGED report
       \/ /\ pc' = "aborted"
          /\ log' = NoteFailure(log, "transcribe")
          /\ report' = ErrorInCallProcessing(TranscribeError)
          /\ UNCHANGED transcript
    /\ UNCHANGED <<hook, match, analyzer, analyze_args, scenarios_to_explore, scenarios_explored, discovered_scenarios,
                   existing_questions, existing_outcomes, current, call_response,
                   extracted, new_scenarios>>
    /\ UNCHANGED <<fetchVars, graphVars>>

\* line 108 with conversation_analyzer.py lines 110-122: analyze returns the
\* pairs and the outcome, or json.loads (or the key lookups) raise
Analyze ==
    /\ pc = "analyze"
    /\ analyze_args' = [NoArgs EXCEPT !.transcript = Some(transcript)]
    /\ \/ /\ \E a \in Analyses : extracted' = a
          /\ pc' = "generate"
          /\ UNCHANGED <<log, report>>
       \/ /\ pc' = "raised"
          /\ log' = NoteFailure(log, "analyze")
          /\ \E exception \in {"JSONDecodeError", "KeyError"} :
                report' = Raised("analyze", exception)
          /\ UNCHANGED extracted
    /\ UNCHANGED <<hook, match, analyzer, scenarios_to_explore, scenarios_explored, discovered_scenarios,
                   existing_questions, existing_outcomes, current, call_response,
                   transcript, new_scenarios>>
    /\ UNCHANGED <<fetchVars, graphVars>>

\* line 109 with conversation_analyzer.py lines 214-228: generate_scenarios
\* returns the variants, returns [] when the answer is not JSON, or raises
\* (the answer is JSON without "new_scenarios", or the request failed)
GenerateScenarios ==
    /\ pc = "generate"
    /\ \/ /\ \E v \in VariantLists : new_scenarios' = v
          /\ pc' = "record"
          /\ UNCHANGED <<log, report>>
       \/ /\ new_scenarios' = <<>>
          /\ pc' = "record"
          /\ log' = NoteFailure(log, "generate_variants")
          /\ UNCHANGED report
       \/ /\ pc' = "raised"
          /\ log' = NoteFailure(log, "generate_variants")
          /\ \E exception \in {"KeyError", "APIError"} :
                report' = Raised("generate_variants", exception)
          /\ UNCHANGED new_scenarios
    /\ UNCHANGED <<hook, match, analyzer, analyze_args, scenarios_to_explore, scenarios_explored, discovered_scenarios,
                   existing_questions, existing_outcomes, current, call_response,
                   transcript, extracted>>
    /\ UNCHANGED <<fetchVars, graphVars>>

hypothesized_path(path, extracted_qa_pairs) == path

\* line 112: current_qa_path = extracted_qa_pairs
current_qa_path(path, extracted_qa_pairs) == extracted_qa_pairs

\* lines 111-137: the extracted path is tracked, the known questions and
\* outcomes are updated, the new variants are enqueued, the graph is drawn
RecordAndEnqueue ==
    /\ pc = "record"
    /\ nx_graph' = track_scenario(nx_graph, current_qa_path(current[2], extracted[1]),
                                  extracted[2])
    /\ tracked' = [n |-> tracked.n + 1,
                   path |-> current_qa_path(current[2], extracted[1]),
                   outcome |-> extracted[2], transcript |-> transcript]
    /\ existing_questions' = existing_questions \cup questions_of(extracted[1])
    /\ existing_outcomes' = existing_outcomes \cup {extracted[2]}
    /\ LET after == EnqueueVariants(new_scenarios, discovered_scenarios,
                                    scenarios_to_explore, log.enq)
       IN /\ discovered_scenarios' = after.discovered
          /\ scenarios_to_explore' = after.frontier
          /\ log' = [log EXCEPT !.enq = after.enq]
    /\ exported' = [format |-> "visual", data |-> export_visual(nx_graph')]
    /\ pc' = "loop"
    /\ UNCHANGED <<hook, match, analyzer, analyze_args, report, scenarios_explored, current, call_response, transcript,
                   extracted, new_scenarios>>
    /\ UNCHANGED fetchVars

\* discover_scenarios has returned or raised and its caller is about to
\* call it again on the same instance: the locals of the call are gone, and
\* what __init__ set (lines 45-50: the tracker, discovered_scenarios,
\* existing_questions, existing_outcomes) is as the call left it
NextRun ==
    /\ pc \in {"done", "aborted", "raised"}
    /\ log.run < MaxRuns
    /\ pc' = "constructed"
    /\ scenarios_to_explore' = <<>>
    /\ scenarios_explored' = 0
    /\ current' = NoItem
    /\ call_response' = NoResponse
    /\ transcript' = NoCurrent
    /\ extracted' = NoItem
    /\ new_scenarios' = <<>>
    /\ analyze_args' = NoArgs
    /\ report' = NoReport
    /\ log' = [NewLog EXCEPT !.run = log.run + 1]
    /\ UNCHANGED <<hook, match, analyzer, discovered_scenarios, existing_questions,
                   existing_outcomes>>
    /\ UNCHANGED <<fetchVars, graphVars>>

\* ========================================================================
\* webhook
\* ========================================================================
JsonContent == "application/json"
ContentTypes == {JsonContent, "text/plain"}

\* the JSON objects posted: the documented payload (lines 38-42), whole or
\* with fields missing; true and false are JSON literals
CallObjects ==
    {[id |-> "call_123", status |-> st, recording_available |-> ra] :
        st \in {"completed", "failed"}, ra \in {"true", "false"}}
    \cup {[id |-> "call_123", status |-> st] : st \in {"completed", "failed"}}
    \cup {[status |-> "completed"]}

\* the bodies posted: a JSON object, JSON that is not an object, not JSON
NullBody == [kind |-> "null"]
Bodies ==
    {[kind |-> "object", fields |-> f] : f \in CallObjects}
    \cup {NullBody, [kind |-> "array"], [kind |-> "invalid"]}
Requests == {[content_type |-> c, body |-> b] : c \in ContentTypes, b \in Bodies}

\* line 67, flask.Request.json: the parsed body; a body that does not parse
\* raises BadRequest; another content type raises UnsupportedMediaType or,
\* with a Flask before 2.1, gives None
request_json(req) ==
    IF req.content_type # JsonContent
    THEN {[raised |-> Some("UnsupportedMediaType"), value |-> NullBody],
          [raised |-> Absent, value |-> NullBody]}
    ELSE IF req.body.kind = "invalid"
    THEN {[raised |-> Some("BadRequest"), value |-> NullBody]}
    ELSE {[raised |-> Absent, value |-> req.body]}

\* lines 67-73: the exception of the try block, if any; data.get exists on
\* a dict only
try_block(json) ==
    IF json.raised # Absent THEN json.raised
    ELSE IF json.value.kind # "object" THEN Some("AttributeError")
    ELSE Absent

except_attribute_error(exception) == exception = "AttributeError"

\* line 80: except Exception; BadRequest, UnsupportedMediaType and
\* AttributeError all derive from Exception
except_exception(exception) == TRUE

\* line 78
SuccessResponse == [body |-> [success |-> TRUE], status |-> 200]
\* line 82: str(e) is the message
ErrorResponse(exception) == [body |-> [error |-> exception], status |-> 500]

NoHook == [request |-> Absent, response |-> Absent, escaped |-> Absent]

\* lines 27-82: one POST /webhook
Webhook ==
    /\ \E req \in Requests : \E json \in request_json(req) :
        LET exception == try_block(json)
        IN hook' = [request |-> Some(req),
                    response |-> IF exception = Absent THEN Some(SuccessResponse)
                                 ELSE IF except_exception(exception[1])
                                 THEN Some(ErrorResponse(exception[1]))
                                 ELSE Absent,
                    escaped |-> IF exception # Absent /\ ~except_exception(exception[1])
                                THEN exception ELSE Absent]
    /\ UNCHANGED <<fetchVars, graphVars, ctlVars, matchVars>>

\* ========================================================================
\* Specifications
\* ========================================================================
Init ==
    /\ fpc = "idle"
    /\ max_retries = DefaultMaxRetries
    /\ attempt = 0
    /\ responses = <<>>
    /\ sleeps = <<>>
    /\ wait_time = 0
    /\ dl_result = NoResult
    /\ wrote = FALSE
    /\ recordings = {}
    /\ fetch_call_id = 0
    /\ nx_graph = NewGraph
    /\ exported = NoExport
    /\ tracked = NoTrack
    /\ analyzer \in Analyzers
    /\ pc = "constructed"
    /\ scenarios_to_explore = <<>>
    /\ scenarios_explored = 0
    /\ discovered_scenarios = <<>>
    /\ existing_questions = {}
    /\ existing_outcomes = {}
    /\ current = NoItem
    /\ call_response = NoResponse
    /\ transcript = NoCurrent
    /\ extracted = NoItem
    /\ new_scenarios = <<>>
    /\ analyze_args = NoArgs
    /\ report = NoReport
    /\ log = NewLog
    /\ hook = NoHook
    /\ match = NoMatch

\* download_recording(call_id, max_retries) called on its own
FetchCall ==
    /\ fpc \in {"idle", "returned", "raised"}
    /\ \E m \in 0..MaxRetriesBound : EnterDownload(1, m)
    /\ UNCHANGED <<graphVars, ctlVars, hookVars, matchVars>>

NextFetch == FetchCall \/ FetchRequest \/ FetchWake
SpecFetch == Init /\ [][NextFetch]_vars

\* notifications arrive while download_recording polls
NextWebhook == Webhook \/ FetchCall \/ FetchRequest \/ FetchWake
SpecWebhook == Init /\ [][NextWebhook]_vars

\* notifications arrive at any moment of a run's first iteration, before
\* the call is placed, while it is awaited and retrieved, and after
NextNotified ==
    \/ Webhook
    \/ DiscoverScenarios
    \/ LoopDequeue
    \/ StartCall
    \/ Download
    \/ FetchRequest
    \/ FetchWake
    \/ DownloadDone
    \/ Transcribe
SpecNotified == Init /\ [][NextNotified]_vars

NextMatch == IsScenarioDiscovered
SpecMatch == Init /\ [][NextMatch]_vars

NextGraph == TrackScenario \/ ExportJson \/ ExportVisual
SpecGraph == Init /\ [][NextGraph]_vars

Next ==
    \/ DiscoverScenarios
    \/ LoopDequeue
    \/ LoopExit
    \/ StartCall
    \/ Download
    \/ FetchRequest
    \/ FetchWake
    \/ DownloadDone
    \/ Transcribe
    \/ Analyze
    \/ GenerateScenarios
    \/ RecordAndEnqueue
Spec == Init /\ [][Next]_vars

\* one instance, one discover_scenarios call after another
NextRuns == Next \/ NextRun
SpecRuns == Init /\ [][NextRuns]_vars

\* discover_scenarios is one sequential call: while it has not returned or
\* raised, and every call it makes returns, its next step is taken
SpecLive == Init /\ [][Next]_vars /\ WF_vars(Next)

\* ========================================================================
\* Properties
\* ========================================================================
InFlight == pc \in {"start_call", "download", "downloading", "transcribe",
                    "analyze", "generate", "record"}

IsNotFound(r) == r.status_code = 404 /\ r.content = JsonBody
AllNotFound == \A i \in 1..Len(responses) : IsNotFound(responses[i])
RecordingUnavailable == {MaxRetriesReached, FailedAfterAttempts}
IsBad200(r) == r.status_code = 200 /\ ~StartsWith(r.content, RIFF)

C7_ArtifactValidation ==
    \A i \in 1..Len(responses) :
        IsBad200(responses[i]) =>
            /\ i = Len(responses)
            /\ fpc = "raised"
            /\ dl_result = NotValidWav
            /\ ~wrote
            /\ wait_time = 0
            /\ \A k \in 1..Len(sleeps) : sleeps[k].request < i

\* a body that holds RIFF, but not at its start, came with status 200 on a
\* later attempt
C7_Witness ==
    /\ fpc = "raised"
    /\ Len(responses) >= 2
    /\ responses[Len(responses)] = Response(200, ShiftedBody)

Triples(graph_data) == {<<e.from, e.to, e.answer>> : e \in graph_data.edges}

SameAsLastTracked ==
    /\ tracked.n >= 1
    /\ tracked'.n = tracked.n + 1
    /\ tracked'.path = tracked.path
    /\ tracked'.outcome = tracked.outcome

\* C9 (Idempotent graph recording): a track_scenario call with the path and
\* outcome of the call before it leaves the set of distinct (from, to,
\* answer) triples of the JSON export as that call left it.
C9_IdempotentRecording ==
    [][SameAsLastTracked =>
          Triples(export_json(nx_graph')) = Triples(export_json(nx_graph))]_vars

\* a two-pair path was recorded twice on top of another scenario, and the
\* graph was exported
C9_Witness ==
    /\ tracked.n = 3
    /\ tracked.path = YesNo
    /\ \E p \in Paths, o \in Outcomes :
        /\ p # YesNo
        /\ nx_graph = track_scenario(track_scenario(track_scenario(NewGraph, p, o),
                                     tracked.path, tracked.outcome),
                                     tracked.path, tracked.outcome)
    /\ exported = [format |-> "json", data |-> export_json(nx_graph)]

\* C10 (De-duplicated JSON export, as claimed): the edge list of a JSON
\* export holds no two entries with the same (from, to, answer).
C10_JsonExportDeduplicated ==
    exported.format = "json" =>
        \A e1, e2 \in exported.data.edges :
            (e1.from = e2.from /\ e1.to = e2.to /\ e1.answer = e2.answer) => e1 = e2

\* a track_scenario call was made with this path
TrackedWith(path) == tracked'.n = tracked.n + 1 /\ tracked'.path = path

\* C11 (Graph input validation, as claimed): a track_scenario call with an
\* empty path is rejected and leaves the nodes and edges of the graph as
\* they were.
C11_EmptyPathRejected ==
    [][TrackedWith(Empty) => nx_graph' = nx_graph]_vars

\* the (from, to, answer) triples the claim lists for the pairs
\* (q1, a1) .. (qk, ak) and the outcome
ExpectedEdges(items, outcome) ==
    {<<CallStart, items[1][1], BeginCall>>}
    \cup {<<items[i - 1][1], items[i][1], items[i - 1][2]>> : i \in 2..Len(items)}
    \cup {<<items[Len(items)][1], OutcomeNode(outcome), items[Len(items)][2]>>}

\* a path of k >= 1 pairs: no dict of it is empty
PairsPath(path) == path # <<>> /\ \A i \in 1..Len(path) : path[i] # <<>>

\* C12 (Edge construction, as claimed): after a track_scenario call with the pairs
\* (q1, a1) .. (qk, ak), k >= 1, and an outcome, the graph holds Call Start,
\* an edge Call Start -> q1 labelled "begin call", an edge q(i-1) -> q(i)
\* labelled a(i-1) for each i in 2..k and an edge qk -> outcome node
\* labelled ak; the call adds these k + 1 edges and no other, and removes none.
C12_EdgeConstruction ==
    [][(tracked'.n = tracked.n + 1 /\ PairsPath(tracked'.path)) =>
          LET items == Items(tracked'.path)
              expected == ExpectedEdges(items, tracked'.outcome)
              added == nx_graph'.edges \ nx_graph.edges
          IN /\ CallStart \in nx_graph'.nodes
             /\ nx_graph.edges \subseteq nx_graph'.edges
             /\ expected \subseteq export_visual(nx_graph')
             /\ {<<e.from, e.to, e.answer>> : e \in added} = expected
             /\ Cardinality(added) = Len(items) + 1
             /\ \A t \in expected : t[1] \in nx_graph'.nodes /\ t[2] \in nx_graph'.nodes
             /\ OutcomeNode(tracked'.outcome) \in nx_graph'.is_outcome]_vars


\* ---- VoiceAgentDiscovery: the variants of an iteration --------------------
\* two scenarios are structurally the same: as many dicts, each with the
\* same pairs as its counterpart
SameScenario(a, b) ==
    /\ Len(a) = Len(b)
    /\ \A i \in 1..Len(a) :
          {a[i][j] : j \in 1..Len(a[i])} = {b[i][j] : j \in 1..Len(b[i])}

\* the positions of the variants that are neither in the discovered set
\* nor a repeat of an earlier variant of the same list
NovelPositions(variants, discovered) ==
    {i \in 1..Len(variants) :
        /\ \A d \in 1..Len(discovered) : ~SameScenario(discovered[d], variants[i])
        /\ \A j \in 1..(i - 1) : ~SameScenario(variants[j], variants[i])}

\* those variants, in the analyzer's order
NovelVariants(variants, discovered) ==
    LET P == NovelPositions(variants, discovered)
    IN [k \in 1..Cardinality(P) |->
           variants[CHOOSE i \in P : Cardinality({j \in P : j <= i}) = k]]

RunEnded == pc \in {"done", "aborted", "raised"}

LoopConditionFails ==
    scenarios_to_explore = <<>> \/ scenarios_explored >= MaxScenarios

C15_RunReport ==
    pc \in {"done", "aborted"} =>
        /\ report.explored # Absent
        /\ report.remaining # Absent
        /\ pc = "aborted" => report.error # Absent

\* the variants of the last iteration that were never enqueued before it
\* (neither the seed nor a variant of an earlier iteration)
NeverEnqueued(variants) ==
    {variants[i] : i \in {k \in 1..Len(variants) :
        \A e \in 1..Len(log.enq) : ~SameScenario(log.enq[e], variants[k])}}

C18_EmptySeedExecuted ==
    /\ pc # "constructed" => (log.enq # <<>> /\ log.enq[1] = Empty)
    /\ RunEnded => (log.deq >= 1 /\ log.calls >= 1)

\* C19 (AnalysisError as a value, as claimed): an answer of the model that
\* does not parse never leaves the analyzer as an exception, neither from
\* analyze nor from generate_scenarios.
C19_AnalysisErrorIsValue ==
    ~ /\ report.raised # Absent
      /\ report.raised[1].stage \in {"analyze", "generate_variants"}
      /\ report.raised[1].exception = "JSONDecodeError"

\* ---- webhook -------------------------------------------------------------
\* C20 (Webhook response): every POST to the webhook is answered with
\* {"success": true} and 200, or with {"error": message} and 500, never with
\* both and never with an exception that leaves the handler; the answer is
\* the success one exactly when the body is a JSON object.
C20_WebhookResponse ==
    hook.request # Absent =>
        /\ hook.escaped = Absent
        /\ hook.response # Absent
        /\ \/ hook.response[1] = SuccessResponse
           \/ /\ hook.response[1].status = 500
              /\ DOMAIN hook.response[1].body = {"error"}
        /\ hook.response[1] = SuccessResponse <=>
              (hook.request[1].content_type = JsonContent
               /\ hook.request[1].body.kind = "object")

\* while a recording was polled, a notification whose body does not parse
\* was answered with 500 and the message of the exception
C20_Witness ==
    /\ fpc = "sleep"
    /\ hook.request = Some([content_type |-> JsonContent, body |-> [kind |-> "invalid"]])
    /\ hook.response = Some(ErrorResponse("BadRequest"))
    /\ hook.escaped = Absent

\* ---- HammingClient.download_recording: the docstring's backoff ------------
\* C21 (Exponential backoff, as claimed): the waits of one download_recording
\* call grow by a constant factor, so of any three successive waits the
\* middle one is the geometric mean of its neighbours.
C21_ExponentialBackoff ==
    \A k \in 1..(Len(sleeps) - 2) :
        sleeps[k + 1].wait * sleeps[k + 1].wait = sleeps[k].wait * sleeps[k + 2].wait

Reverse(seq) == [i \in 1..Len(seq) |-> seq[Len(seq) + 1 - i]]

\* C24 (_is_scenario_discovered): the call returns true exactly when some
\* scenario of D has as many positions as c and at each position the same
\* questions with the same answers; it returns false when D is empty, and
\* D in the opposite order gives the same result.
C24_StructuralMembership ==
    match.called =>
        LET D == match.discovered_scenarios
            c == match.candidate_scenario
        IN /\ match.result <=> \E d \in 1..Len(D) : SameScenario(D[d], c)
           /\ D = <<>> => ~match.result
           /\ match.result = is_scenario_discovered(Reverse(D), c)

\* the candidate was found at the second place of D, behind a scenario of
\* the same questions with another answer, its two-pair dict written in the
\* other insertion order
C24_Witness ==
    /\ match.called
    /\ match.discovered_scenarios =
          << NoNo, << <<Item(Q2, "No"), Item(Q1, "Yes")>> >> >>
    /\ match.candidate_scenario = << <<Item(Q1, "Yes"), Item(Q2, "No")>> >>
    /\ match.result

C26_ParallelAnswersCoexist ==
    [][/\ tracked'.n = tracked.n + 1 =>
            /\ nx_graph.edges \subseteq nx_graph'.edges
            /\ export_visual(nx_graph) \subseteq export_visual(nx_graph')
            /\ PairsPath(tracked'.path) =>
                  LET items == Items(tracked'.path)
                  IN <<items[Len(items)][1], OutcomeNode(tracked'.outcome),
                       items[Len(items)][2]>> \in export_visual(nx_graph')
       /\ (exported'.format = "json" /\ exported' # exported) =>
            Triples(exported'.data) = export_visual(nx_graph)]_vars

\* two scenarios went from the same question to the same outcome, one
\* with Yes and one with No, and the JSON export holds both edges
C26_Witness ==
    /\ tracked.n = 2
    /\ nx_graph = track_scenario(track_scenario(NewGraph, Yes1, "transfer"),
                                 No1, "transfer")
    /\ exported.format = "json"
    /\ {<<Q1, OutcomeNode("transfer"), "Yes">>, <<Q1, OutcomeNode("transfer"), "No">>}
          \subseteq Triples(exported.data)

\* C27 (No cycles back to start, as claimed): no edge of the graph has the
\* start node as its target.
C27_NoEdgeIntoStart ==
    \A e \in nx_graph.edges : e.to # CallStart

\* the nodes that are neither the start node nor an outcome node
QuestionNodes == nx_graph.nodes \ ({CallStart} \cup nx_graph.is_outcome)

\* C28 (Paths end at outcomes, as claimed): once a track_scenario call has
\* completed, no outcome node has an outgoing edge and every question node
\* has one, so a path that cannot be extended ends at an outcome node.
C28_PathsEndAtOutcomes ==
    tracked.n >= 1 =>
        /\ \A e \in nx_graph.edges : e.from \notin nx_graph.is_outcome
        /\ \A q \in QuestionNodes : \E e \in nx_graph.edges : e.from = q

\* C29 (Append-only graph): a track_scenario call keeps every node, every
\* outcome mark and every keyed, labelled edge that was there, and an
\* export in either format leaves the graph as it was.
C29_AppendOnlyGraph ==
    [][/\ nx_graph.nodes \subseteq nx_graph'.nodes
       /\ nx_graph.is_outcome \subseteq nx_graph'.is_outcome
       /\ nx_graph.edges \subseteq nx_graph'.edges
       /\ tracked'.n = tracked.n => nx_graph' = nx_graph]_vars

\* three two-pair scenarios were recorded, each adding its three edges to
\* those before it, and the graph was drawn after the last
C29_Witness ==
    /\ tracked.n = 3
    /\ Cardinality(nx_graph.edges) = 9
    /\ exported = [format |-> "visual", data |-> export_visual(nx_graph)]

C34_RequestsFollowSleep ==
    \A i \in 1..Len(responses) :
        (i < Len(responses) \/ fpc = "request") =>
            /\ responses[i].status_code = 404
            /\ \E k \in 1..Len(sleeps) : sleeps[k].request = i

\* an error status other than 404: another 4xx, or a 5xx
IsOtherError(r) ==
    r.status_code >= 400 /\ r.status_code < 600 /\ r.status_code # 404

\* C35 (Other error statuses fail at once): a response whose status is a
\* 4xx other than 404, or a 5xx, is the last response of the call: the call
\* raises the HTTP error with no sleep started by that response, no further
\* request, no file written and no path returned.
C35_OtherErrorFailsAtOnce ==
    \A i \in 1..Len(responses) :
        IsOtherError(responses[i]) =>
            /\ i = Len(responses)
            /\ fpc = "raised"
            /\ dl_result = HTTPError
            /\ ~wrote
            /\ wait_time = 0
            /\ \A k \in 1..Len(sleeps) : sleeps[k].request < i

\* the recording was not ready at the first request, and the second one,
\* after the sleep, was answered 403
C35_Witness ==
    /\ fpc = "raised"
    /\ Len(responses) = 2
    /\ IsNotFound(responses[1])
    /\ responses[2] = Response(403, JsonBody)
    /\ Len(sleeps) = 1
    /\ dl_result = HTTPError

Accumulated == <<nx_graph, discovered_scenarios, existing_questions,
                 existing_outcomes, scenarios_to_explore>>

RECURSIVE ReachableFrom(_, _)
ReachableFrom(G, S) ==
    LET T == S \cup {e.to : e \in {d \in G.edges : d.from \in S}}
    IN IF T = S THEN S ELSE ReachableFrom(G, T)

\* C38 (Reachability, as claimed): after any sequence of track_scenario
\* calls every node of the graph, question or outcome, is reached from the
\* start node along the edges.
C38_AllNodesReachable ==
    nx_graph.nodes \subseteq ReachableFrom(nx_graph, {CallStart})

\* ---- VoiceAgentDiscovery: the known sets and the graph -------------------------
\* the outcomes that have an outcome node in the graph
GraphOutcomes == {o \in Outcomes : OutcomeNode(o) \in nx_graph.is_outcome}

RunState ==
    [executing |-> IF InFlight THEN Some(current[2]) ELSE Absent,
     frontier |-> FrontierScenarios,
     discovered |-> discovered_scenarios,
     graph |-> nx_graph,
     counter |-> scenarios_explored]

\* the run state after an iteration that was given the pairs, the outcome
\* and the variants, as a function of the run state before it
AfterIteration(run, qa_pairs, outcome, variants) ==
    LET novel == IF run.counter < MaxScenarios
                 THEN NovelVariants(variants, run.discovered) ELSE <<>>
    IN [executing |-> Absent,
        frontier |-> run.frontier \o novel,
        discovered |-> run.discovered \o novel,
        graph |-> track_scenario(run.graph, qa_pairs, outcome),
        counter |-> run.counter]

IsRecording(r) == r.status_code = 200 /\ StartsWith(r.content, RIFF)

====
